---- MODULE Spec2Model ----
(***************************************************************************)
(* Bilingual FAQ retrieval of the EV charging chatbot.                     *)
(*                                                                         *)
(*   backend/build_vector_db.py  VectorDBBuilder.build_index               *)
(*   backend/vector_search.py    VectorSearch.__init__, search,            *)
(*                               get_context_for_llm                       *)
(*                                                                         *)
(* The builder turns a corpus of FAQ entries into two files (the vectors   *)
(* and the metadata); the engine loads the two files and answers queries.  *)
(* An embedding vector is a point with integer coordinates; the embedding  *)
(* provider is an external service, so every call of get_embedding may     *)
(* return any vector.  A text is a string; a formatted text is the         *)
(* sequence of the pieces it is concatenated from.                         *)
(***************************************************************************)
EXTENDS Integers, Sequences, FiniteSets, TLC

(***************************************************************************)
(* Bounds                                                                  *)
(***************************************************************************)
\* longest corpus (number of FAQ entries in faq_data.json)
MaxCorpus == 2
\* largest top_k a caller passes; with it search asks the index for up to
\* 2 * MaxTopK neighbours, more than, as many as and fewer than the 2 or 4
\* records an index of one or two entries holds
MaxTopK == 2
\* the values a coordinate of an embedding takes
Coords == {0, 1}
\* the axes of an embedding (1536 of them in text-embedding-3-small)
Axes == {1}
\* the embeddings the provider may return
Vecs == [Axes -> Coords]
\* the axes and the embeddings of a wider embedding model
\* (3072 axes in text-embedding-3-large)
WideAxes == Axes \cup {Cardinality(Axes) + 1}
WideVecs == [WideAxes -> Coords]

(***************************************************************************)
(* The corpus: data/faq_data.json, a list of FAQ entries                   *)
(***************************************************************************)
Faq1 ==
    [id |-> "1", category |-> "billing",
     question_en |-> "How do I pay?", answer_en |-> "Use the app.",
     question_hi |-> "Main kaise bhugtan karun?",
     answer_hi |-> "App ka upyog karen."]

Faq2 ==
    [id |-> "2", category |-> "charging",
     question_en |-> "Where is the nearest charging station?",
     answer_en |-> "Open the map.",
     question_hi |-> "Nikatatam charging station kahan hai?",
     answer_hi |-> "Naksha kholen."]

FaqData == {Faq1, Faq2}

RECURSIVE SeqsUpTo(_, _)
SeqsUpTo(S, n) ==
    IF n = 0 THEN {<<>>}
    ELSE LET shorter == SeqsUpTo(S, n - 1)
         IN  shorter \cup {Append(s, x) : s \in shorter, x \in S}

\* the corpora build_index is run on (entries may repeat, the file may be [])
Corpora == SeqsUpTo(FaqData, MaxCorpus)

\* an entry of the file without one of its keys, and with an empty string
Without(faq, key) == [k \in DOMAIN faq \ {key} |-> faq[k]]
WithEmpty(faq, key) == [faq EXCEPT ![key] = ""]

\* the keys build_index reads of every entry
RequiredKeys ==
    {"id", "category", "question_en", "answer_en", "question_hi", "answer_hi"}

\* entries of a hand-edited file: a key left out or a value left empty
MalformedData ==
    {Without(Faq1, "question_en"), Without(Faq1, "category"),
     Without(Faq1, "answer_hi"), WithEmpty(Faq1, "question_en"),
     WithEmpty(Faq1, "id"), WithEmpty(Faq1, "answer_hi")}

\* the corpora of a file that may hold such entries
MalformedCorpora == SeqsUpTo(FaqData \cup MalformedData, MaxCorpus)

(***************************************************************************)
(* State                                                                   *)
(***************************************************************************)
VARIABLES
    faqs,             \* build_index: the list loaded from faq_file
    bpc,              \* build_index: position in the function
    idx,              \* build_index: loop counter (0-based, as enumerate)
    embeddings_list,  \* build_index: local list of vectors
    metadata_list,    \* build_index: local list of metadata records
    disk,             \* the index directory: faqs.index and metadata.pkl
    lpc,              \* VectorSearch.__init__: position in the constructor
    self,             \* the VectorSearch object under construction / built
    load_error,       \* the exception __init__ raised, "" when none
    call,             \* the last search / get_context_for_llm call
    build_error,      \* the exception build_index raised, "" when none
    provider_log,     \* the embedding requests of the current build_index
    runs,             \* the earlier runs of build_index, oldest first
    tasks,            \* the search calls in progress on concurrent threads
    dispatch_cache,   \* server: _dispatch_cache
    livekit,          \* the rooms and agent dispatches of the LiveKit server
    request,          \* server: the POST /api/token request being handled
    agent             \* the voice agent and the turn it is handling

run_vars == <<build_error, provider_log, runs>>
app_vars == <<tasks, dispatch_cache, livekit, request, agent>>

vars == <<faqs, bpc, idx, embeddings_list, metadata_list, disk,
          lpc, self, load_error, call, run_vars, app_vars>>

build_vars == <<faqs, bpc, idx, embeddings_list, metadata_list, run_vars>>
load_vars == <<lpc, self, load_error>>

NoFile == [exists |-> FALSE, data |-> <<>>]
File(data) == [exists |-> TRUE, data |-> data]

NoAttr == [set |-> FALSE, value |-> <<>>]
Attr(value) == [set |-> TRUE, value |-> value]

NoCall == [op |-> "none"]

(***************************************************************************)
(* VectorDBBuilder.build_index                                             *)
(***************************************************************************)
\* a text that carries the number of the run besides the two fields
EmbedTextOfRun(question, answer) ==
    question \o " " \o answer \o " " \o ToString(Len(runs))

\* f"{question} {answer}": the text submitted to the embedding provider
EmbedText(question, answer) == question \o " " \o answer

\* get_embedding: the provider is external, any vector may come back
get_embedding(text) == Vecs

\* an English record that carries the texts of the Hindi version
MetadataEnOfHindi(faq) ==
    [id |-> faq.id, category |-> faq.category, language |-> "en",
     question |-> faq.question_hi, answer |-> faq.answer_hi]

\* the metadata record appended for the English version of an entry
MetadataEn(faq) ==
    [id |-> faq.id, category |-> faq.category, language |-> "en",
     question |-> faq.question_en, answer |-> faq.answer_en]

\* a Hindi record that keeps the language tag of the English block
MetadataHiTaggedEn(faq) ==
    [id |-> faq.id, category |-> faq.category, language |-> "en",
     question |-> faq.question_hi, answer |-> faq.answer_hi]

\* the metadata record appended for the Hindi version of an entry
MetadataHi(faq) ==
    [id |-> faq.id, category |-> faq.category, language |-> "hi",
     question |-> faq.question_hi, answer |-> faq.answer_hi]

\* faq[key] is defined for every key of `keys` (no KeyError)
HasKeys(faq, keys) == keys \subseteq DOMAIN faq

\* one request to the embedding provider and the vector it answered with
Answered(text, embedding) ==
    [text |-> text, embedding |-> embedding, raised |-> ""]

\* one request to the embedding provider that ended in an exception of the
\* client (no connection, rate limit, rejected key, ...)
Failed(text) == [text |-> text, embedding |-> <<>>, raised |-> "OpenAIError"]

\* a failed request that is sent again from the same place
RetryEmbedding(pc) == pc

\* get_embedding has no try/except and neither has its caller: where
\* build_index continues after a failed request
AfterEmbeddingError(pc) == "raised"

\* embeddings_list = [], metadata_list = [] and entry into the loop
BuildStart ==
    /\ bpc = "start"
    /\ embeddings_list' = <<>>
    /\ metadata_list' = <<>>
    /\ provider_log' = <<>>
    /\ build_error' = ""
    /\ idx' = 0
    /\ bpc' = "english"
    /\ UNCHANGED <<faqs, runs, disk, load_vars, call, app_vars>>

\* loop body, English version of faqs[idx]: the text is built (KeyError
\* when a question or an answer is missing), embedded and appended; the
\* metadata dict is built next (KeyError when id or category is missing)
BuildEnglish ==
    /\ bpc = "english"
    /\ idx < Len(faqs)
    /\ LET faq == faqs[idx + 1]
       IN  IF ~HasKeys(faq, {"question_en", "answer_en"})
           THEN /\ bpc' = "raised"
                /\ build_error' = "KeyError"
                /\ UNCHANGED <<embeddings_list, metadata_list, provider_log>>
           ELSE LET en_text == EmbedText(faq.question_en, faq.answer_en)
                IN  \E en_embedding \in get_embedding(en_text) :
                      /\ provider_log' =
                             Append(provider_log, Answered(en_text, en_embedding))
                      /\ embeddings_list' = Append(embeddings_list, en_embedding)
                      /\ IF HasKeys(faq, {"id", "category"})
                         THEN /\ metadata_list' =
                                     Append(metadata_list, MetadataEn(faq))
                              /\ bpc' = "hindi"
                              /\ UNCHANGED build_error
                         ELSE /\ bpc' = "raised"
                              /\ build_error' = "KeyError"
                              /\ UNCHANGED metadata_list
    /\ UNCHANGED <<faqs, idx, runs, disk, load_vars, call, app_vars>>

\* loop body, Hindi version of faqs[idx], and the step to the next entry
BuildHindi ==
    /\ bpc = "hindi"
    /\ LET faq == faqs[idx + 1]
       IN  IF ~HasKeys(faq, {"question_hi", "answer_hi"})
           THEN /\ bpc' = "raised"
                /\ build_error' = "KeyError"
                /\ UNCHANGED <<idx, embeddings_list, metadata_list,
                               provider_log>>
           ELSE LET hi_text == EmbedText(faq.question_hi, faq.answer_hi)
                IN  \E hi_embedding \in get_embedding(hi_text) :
                      /\ provider_log' =
                             Append(provider_log, Answered(hi_text, hi_embedding))
                      /\ embeddings_list' = Append(embeddings_list, hi_embedding)
                      /\ metadata_list' = Append(metadata_list, MetadataHi(faq))
                      /\ idx' = idx + 1
                      /\ bpc' = "english"
                      /\ UNCHANGED build_error
    /\ UNCHANGED <<faqs, runs, disk, load_vars, call, app_vars>>

\* the text build_index is about to embed at its position in the loop
TextAt(pc) ==
    LET faq == faqs[idx + 1]
    IN  IF pc = "english" THEN EmbedText(faq.question_en, faq.answer_en)
        ELSE EmbedText(faq.question_hi, faq.answer_hi)

\* loop body, either version: self.client.embeddings.create raises
BuildEmbeddingFails ==
    /\ \/ bpc = "english" /\ idx < Len(faqs)
             /\ HasKeys(faqs[idx + 1], {"question_en", "answer_en"})
       \/ bpc = "hindi" /\ HasKeys(faqs[idx + 1], {"question_hi", "answer_hi"})
    /\ provider_log' = Append(provider_log, Failed(TextAt(bpc)))
    /\ bpc' = AfterEmbeddingError(bpc)
    /\ build_error' = IF bpc' = "raised" THEN "OpenAIError" ELSE build_error
    /\ UNCHANGED <<faqs, idx, embeddings_list, metadata_list, runs, disk,
                   load_vars, call, app_vars>>

\* np.array(embeddings_list) and index.add: an empty list gives an array
\* without a second axis, which index.add rejects
IndexAddRaises(embeddings) == Len(embeddings) = 0

\* end of the loop: the FAISS index is created and filled
BuildIndexAdd ==
    /\ bpc = "english"
    /\ idx >= Len(faqs)
    /\ IF IndexAddRaises(embeddings_list)
       THEN /\ bpc' = "raised"
            /\ build_error' = "ValueError"
       ELSE /\ bpc' = "write_index"
            /\ UNCHANGED build_error
    /\ UNCHANGED <<faqs, idx, embeddings_list, metadata_list, provider_log,
                   runs, disk, load_vars, call, app_vars>>

\* mkdir and faiss.write_index(index, index_path)
BuildWriteIndex ==
    /\ bpc = "write_index"
    /\ disk' = [disk EXCEPT !.index = File(embeddings_list)]
    /\ bpc' = "write_metadata"
    /\ UNCHANGED <<faqs, idx, embeddings_list, metadata_list, run_vars,
                   load_vars, call, app_vars>>

\* pickle.dump(metadata_list, f)
BuildWriteMetadata ==
    /\ bpc = "write_metadata"
    /\ disk' = [disk EXCEPT !.metadata = File(metadata_list)]
    /\ bpc' = "done"
    /\ UNCHANGED <<faqs, idx, embeddings_list, metadata_list, run_vars,
                   load_vars, call, app_vars>>

\* open(metadata_path, 'wb') raises (the directory became read-only, the
\* disk is full, ...): build_index ends after its first write
BuildWriteMetadataFails ==
    /\ bpc = "write_metadata"
    /\ bpc' = "raised"
    /\ build_error' = "OSError"
    /\ UNCHANGED <<faqs, idx, embeddings_list, metadata_list, provider_log,
                   runs, disk, load_vars, call, app_vars>>

\* what is known of a run of build_index after it ended: its corpus, its
\* embedding requests and the files it left in the index directory
EndedRun ==
    [faqs |-> faqs, completed |-> bpc = "done", provider_log |-> provider_log,
     index |-> disk.index, metadata |-> disk.metadata]

\* python build_vector_db.py is run a second time, on the same faq file and
\* over the files of the first run
Rerun ==
    /\ bpc \in {"done", "raised"}
    /\ runs = <<>>
    /\ runs' = <<EndedRun>>
    /\ bpc' = "start"
    /\ UNCHANGED <<faqs, idx, embeddings_list, metadata_list, build_error,
                   provider_log, disk, load_vars, call, app_vars>>

\* the faq file is edited and python build_vector_db.py is run a second
\* time, over the files of the first run
Rebuild ==
    /\ bpc \in {"done", "raised"}
    /\ runs = <<>>
    /\ runs' = <<EndedRun>>
    /\ faqs' \in Corpora \ {faqs}
    /\ bpc' = "start"
    /\ UNCHANGED <<idx, embeddings_list, metadata_list, build_error,
                   provider_log, disk, load_vars, call, app_vars>>

(***************************************************************************)
(* VectorSearch.__init__                                                   *)
(***************************************************************************)
NewObject == [index |-> NoAttr, metadata |-> NoAttr, constructed |-> FALSE]

\* VectorSearch(index_dir) is called: a new object enters __init__
Construct ==
    /\ lpc \in {"idle", "raised"}
    /\ lpc' = "exists"
    /\ self' = NewObject
    /\ load_error' = ""
    /\ call' = NoCall
    /\ UNCHANGED <<build_vars, disk, app_vars>>

\* if not os.path.exists(index_path): raise FileNotFoundError
LoadCheckIndex ==
    /\ lpc = "exists"
    /\ IF disk.index.exists
       THEN /\ lpc' = "read_index"
            /\ UNCHANGED load_error
       ELSE /\ lpc' = "raised"
            /\ load_error' = "FileNotFoundError"
    /\ UNCHANGED <<build_vars, disk, self, call, app_vars>>

\* self.index = faiss.read_index(index_path)
LoadReadIndex ==
    /\ lpc = "read_index"
    /\ self' = [self EXCEPT !.index = Attr(disk.index.data)]
    /\ lpc' = "open_metadata"
    /\ UNCHANGED <<build_vars, disk, load_error, call, app_vars>>

\* a missing metadata file read as an empty list
OpenMetadataOrEmpty(file) ==
    IF file.exists
    THEN [raised |-> "", value |-> Attr(file.data)]
    ELSE [raised |-> "", value |-> Attr(<<>>)]

\* open(metadata_path, 'rb'): the outcome for the file found on disk
OpenMetadata(file) ==
    IF file.exists
    THEN [raised |-> "", value |-> Attr(file.data)]
    ELSE [raised |-> "FileNotFoundError", value |-> NoAttr]

\* with open(metadata_path, 'rb') as f: self.metadata = pickle.load(f);
\* the constructor returns and the caller holds the engine
LoadMetadata ==
    /\ lpc = "open_metadata"
    /\ LET opened == OpenMetadata(disk.metadata)
       IN  IF opened.raised = ""
           THEN /\ self' = [self EXCEPT !.metadata = opened.value,
                                        !.constructed = TRUE]
                /\ lpc' = "ready"
                /\ UNCHANGED load_error
           ELSE /\ lpc' = "raised"
                /\ load_error' = opened.raised
                /\ UNCHANGED self
    /\ UNCHANGED <<build_vars, disk, call, app_vars>>

(***************************************************************************)
(* The FAISS flat L2 index: self.index.search(query_embedding, k)          *)
(***************************************************************************)
RECURSIVE SumSquares(_, _, _)
SumSquares(x, y, axes) ==
    IF axes = {} THEN 0
    ELSE LET a == CHOOSE b \in axes : TRUE
         IN  (x[a] - y[a]) * (x[a] - y[a]) + SumSquares(x, y, axes \ {a})

\* squared Euclidean distance of two vectors
L2sqr(x, y) == SumSquares(x, y, DOMAIN x)

\* the distance reported for a neighbour slot the index cannot fill
\* (the largest float32; here a number above every distance of the model)
FLT_MAX == 1000000

\* the orders in which the index may report the labels nearest to xq:
\* ascending distance, labels at equal distance in any order
RECURSIVE NearestFirst(_, _, _, _)
NearestFirst(labels, xb, xq, k) ==
    IF labels = {} \/ k = 0 THEN {<<>>}
    ELSE LET nearest == {i \in labels : \A j \in labels :
                             L2sqr(xb[i + 1], xq) <= L2sqr(xb[j + 1], xq)}
         IN  UNION {{<<i>> \o rest :
                        rest \in NearestFirst(labels \ {i}, xb, xq, k - 1)} :
                    i \in nearest}

\* index.search over the stored vectors xb: k distances and k labels
\* (0-based positions), nearest first; slots beyond the number of stored
\* vectors carry label -1 and distance FLT_MAX
IndexSearch(xb, xq, k) ==
    {[D |-> [j \in 1..k |-> IF j <= Len(order)
                            THEN L2sqr(xb[order[j] + 1], xq) ELSE FLT_MAX],
      I |-> [j \in 1..k |-> IF j <= Len(order) THEN order[j] ELSE -1]] :
     order \in NearestFirst(0..(Len(xb) - 1), xb, xq, k)}

\* the number of axes of the stored vectors (index.d)
DimensionOf(xb) == IF Len(xb) = 0 THEN Axes ELSE DOMAIN xb[1]

\* an index that takes a query of any width
NoDimensionCheck(xb, xq) == FALSE

\* index.search asserts that the query has the dimension of the index
DimensionDiffers(xb, xq) == DOMAIN xq # DimensionOf(xb)

(***************************************************************************)
(* VectorSearch.search                                                     *)
(***************************************************************************)
\* how a caller passes the language: a string, or no argument at all
Omitted == "<omitted>"
LanguageArgs == {"en", "hi", "fr", "", Omitted}
TopKs == 1..MaxTopK

\* def search(self, query, language='en', top_k=3): the parameter's value
BindLanguage(arg) == IF arg = Omitted THEN "en" ELSE arg

\* float(1 / (1 + dist)), kept as the fraction num/den
SimilarityScore(dist) == [num |-> 1, den |-> 1 + dist]

\* a filter that lets every record through
SkipNothing(language, faq) == FALSE

\* a filter that compares the language even when none was given
SkipWithoutTruthTest(language, faq) == faq.language # language

\* a filter that is applied for the two supported languages only
SkipSupportedOnly(language, faq) ==
    language \in {"en", "hi"} /\ faq.language # language

\* `language and faq['language'] != language`: the record is skipped
SkipLanguage(language, faq) == language # "" /\ faq.language # language

\* `idx < len(self.metadata)`: the label is looked up in the metadata
LabelInRange(label, metadata) == label < Len(metadata)

\* self.metadata[idx] of a Python list: a negative idx counts from the end
ListItem(list, i) ==
    IF i >= 0 THEN list[i + 1] ELSE list[Len(list) + i + 1]

\* the same lookup raises IndexError outside -len .. len-1
ListItemRaises(list, i) == i >= Len(list) \/ Len(list) + i < 0

\* the dict appended to results
ResultEntry(faq, dist) ==
    [category |-> faq.category, question |-> faq.question,
     answer |-> faq.answer, language |-> faq.language,
     similarity_score |-> SimilarityScore(dist)]

\* a loop left one record late
LoopBreaksLate(results, top_k) == Len(results) > top_k

\* `len(results) >= top_k`: the loop is left
LoopBreaks(results, top_k) == Len(results) >= top_k

\* for dist, idx in zip(distances[0], indices[0]): ... from slot j on
RECURSIVE SearchLoop(_, _, _, _, _, _)
SearchLoop(metadata, found, language, top_k, j, results) ==
    IF j > Len(found.I) THEN [raised |-> "", results |-> results]
    ELSE IF ~LabelInRange(found.I[j], metadata)
    THEN SearchLoop(metadata, found, language, top_k, j + 1, results)
    ELSE IF ListItemRaises(metadata, found.I[j])
    THEN [raised |-> "IndexError", results |-> <<>>]
    ELSE LET faq == ListItem(metadata, found.I[j])
             kept == Append(results, ResultEntry(faq, found.D[j]))
         IN  IF SkipLanguage(language, faq)
             THEN SearchLoop(metadata, found, language, top_k, j + 1, results)
             ELSE IF LoopBreaks(kept, top_k)
             THEN [raised |-> "", results |-> kept]
             ELSE SearchLoop(metadata, found, language, top_k, j + 1, kept)

\* a query for top_k neighbours only
NoOverfetch(top_k) == top_k

\* the number of neighbours asked of the index
Overfetch(top_k) == top_k * 2

\* search(query, language, top_k) once the index answered with `found`
SearchResults(metadata, found, language, top_k) ==
    SearchLoop(metadata, found, language, top_k, 1, <<>>)

(***************************************************************************)
(* VectorSearch.get_context_for_llm                                        *)
(***************************************************************************)
\* the hundredths of num/den, rounded half to even as Python's format does
Hundredths(score) ==
    LET q == (100 * score.num) \div score.den
        r == (100 * score.num) % score.den
    IN  IF 2 * r > score.den THEN q + 1
        ELSE IF 2 * r = score.den THEN q + (q % 2)
        ELSE q

\* f"{similarity_score:.2f}"
TwoDecimals(score) ==
    LET h == Hundredths(score)
    IN  ToString(h \div 100) \o "." \o ToString((h % 100) \div 10)
            \o ToString(h % 10)

\* a block whose answer line repeats the question
ContextBlockNoAnswer(i, result) ==
    << <<"\n", ToString(i), ". Category: ", result.category>>,
       <<"   Q: ", result.question>>,
       <<"   A: ", result.question>>,
       <<"   (Relevance: ", TwoDecimals(result.similarity_score), ")">> >>

\* the four context_parts appended for the i-th result
ContextBlock(i, result) ==
    << <<"\n", ToString(i), ". Category: ", result.category>>,
       <<"   Q: ", result.question>>,
       <<"   A: ", result.answer>>,
       <<"   (Relevance: ", TwoDecimals(result.similarity_score), ")">> >>

RECURSIVE ContextParts(_, _)
ContextParts(results, i) ==
    IF i > Len(results) THEN <<>>
    ELSE ContextBlock(i, results[i]) \o ContextParts(results, i + 1)

\* "\n".join(parts): the pieces of the parts, a "\n" between two parts
RECURSIVE JoinLines(_)
JoinLines(parts) ==
    IF Len(parts) = 0 THEN <<>>
    ELSE IF Len(parts) = 1 THEN parts[1]
    ELSE parts[1] \o <<"\n">> \o JoinLines(Tail(parts))

NoSimilarFaqs == <<"No similar FAQs found.">>

\* the text get_context_for_llm returns for the results of its search
FormatContext(results) ==
    IF Len(results) = 0 THEN NoSimilarFaqs
    ELSE JoinLines(<< <<"Here are the most relevant FAQs:\n">> >>
                       \o ContextParts(results, 1))

(***************************************************************************)
(* Calls on a constructed engine                                           *)
(***************************************************************************)
\* one call of search(query, language, top_k) on the engine, the provider
\* answering with one of `embeddings`
SearchWith(embeddings) ==
    /\ lpc = "ready"
    /\ call = NoCall
    /\ \E top_k \in TopKs, query_embedding \in embeddings :
         IF DimensionDiffers(self.index.value, query_embedding)
         THEN \E arg \in LanguageArgs :
                call' = [op |-> "search", arg |-> arg,
                         language |-> BindLanguage(arg), top_k |-> top_k,
                         query_embedding |-> query_embedding,
                         found |-> [D |-> <<>>, I |-> <<>>],
                         raised |-> "AssertionError",
                         results |-> <<>>, context |-> <<>>,
                         requests |-> <<Answered("query", query_embedding)>>]
         ELSE
         \E found \in IndexSearch(self.index.value, query_embedding,
                                  Overfetch(top_k)) :
           \E arg \in LanguageArgs :
             LET language == BindLanguage(arg)
                 out == SearchResults(self.metadata.value, found,
                                      language, top_k)
             IN  call' = [op |-> "search", arg |-> arg,
                          language |-> language, top_k |-> top_k,
                          query_embedding |-> query_embedding,
                          found |-> found, raised |-> out.raised,
                          results |-> out.results, context |-> <<>>,
                          requests |-> <<Answered("query", query_embedding)>>]
    /\ UNCHANGED <<build_vars, disk, load_vars, app_vars>>

\* search on an engine that uses the embedding model of the builder
Search == SearchWith(get_embedding("query"))

\* search on an engine constructed with another embedding_model than the
\* index was built with: the provider answers with wider vectors
SearchOtherModel == SearchWith(WideVecs)

\* one call of get_context_for_llm(query, language, top_k) on the engine
GetContextForLlm ==
    /\ lpc = "ready"
    /\ call = NoCall
    /\ \E top_k \in TopKs, query_embedding \in get_embedding("query") :
         \E found \in IndexSearch(self.index.value, query_embedding,
                                  Overfetch(top_k)) :
           \E arg \in LanguageArgs :
             LET language == BindLanguage(arg)
                 out == SearchResults(self.metadata.value, found,
                                      language, top_k)
             IN  call' = [op |-> "get_context_for_llm", arg |-> arg,
                          language |-> language, top_k |-> top_k,
                          query_embedding |-> query_embedding,
                          found |-> found, raised |-> out.raised,
                          results |-> out.results,
                          context |-> IF out.raised = ""
                                      THEN FormatContext(out.results)
                                      ELSE <<>>,
                          requests |-> <<Answered("query", query_embedding)>>]
    /\ UNCHANGED <<build_vars, disk, load_vars, app_vars>>

\* one call of search whose get_embedding raises: the exception leaves
\* search before the index is consulted
SearchEmbeddingFails ==
    /\ lpc = "ready"
    /\ call = NoCall
    /\ \E top_k \in TopKs, arg \in LanguageArgs :
         call' = [op |-> "search", arg |-> arg,
                  language |-> BindLanguage(arg), top_k |-> top_k,
                  query_embedding |-> <<>>,
                  found |-> [D |-> <<>>, I |-> <<>>],
                  raised |-> Failed("query").raised,
                  results |-> <<>>, context |-> <<>>,
                  requests |-> <<Failed("query")>>]
    /\ UNCHANGED <<build_vars, disk, load_vars, app_vars>>

(***************************************************************************)
(* Calls of search on concurrent threads of one engine                     *)
(***************************************************************************)
\* Two threads call search on one engine.  The locals of the first, the
\* caller, are kept; of the other thread only whether it is inside search
\* is kept, and what its call does to the engine.
IdleTask == [pc |-> "idle"]

\* the languages the callers of the engine pass (detect_language)
TaskLanguages == {"en", "hi"}

\* a search that drops the last record of the metadata it has looked at
EngineWithoutLast(engine) ==
    [engine EXCEPT !.metadata =
        Attr(SubSeq(engine.metadata.value, 1,
                    Len(engine.metadata.value) - 1))]

\* the engine after a call of search: search assigns to no attribute of
\* self and calls no mutating method of self.index or self.metadata
EngineAfterSearch(engine) == engine

\* the caller enters search and gets the embedding of its query
TaskEmbed ==
    /\ lpc = "ready"
    /\ tasks.caller.pc = "idle"
    /\ \E top_k \in TopKs, language \in TaskLanguages,
          query_embedding \in get_embedding("query") :
         tasks' = [tasks EXCEPT !.caller =
                      [pc |-> "index_search", language |-> language,
                       top_k |-> top_k, query_embedding |-> query_embedding]]
    /\ UNCHANGED <<build_vars, disk, load_vars, call, dispatch_cache,
                   livekit, request, agent>>

\* distances, indices = self.index.search(query_embedding, top_k * 2)
TaskIndexSearch ==
    /\ tasks.caller.pc = "index_search"
    /\ \E found \in IndexSearch(self.index.value, tasks.caller.query_embedding,
                                 Overfetch(tasks.caller.top_k)) :
         tasks' = [tasks EXCEPT !.caller =
                      [pc |-> "loop", language |-> tasks.caller.language,
                       top_k |-> tasks.caller.top_k,
                       query_embedding |-> tasks.caller.query_embedding,
                       found |-> found]]
    /\ UNCHANGED <<build_vars, disk, load_vars, call, dispatch_cache,
                   livekit, request, agent>>

\* the loop over the neighbours, up to `return results`
TaskLoop ==
    /\ tasks.caller.pc = "loop"
    /\ LET out == SearchResults(self.metadata.value, tasks.caller.found,
                                tasks.caller.language, tasks.caller.top_k)
       IN  tasks' = [tasks EXCEPT !.caller =
                        [pc |-> "returned", language |-> tasks.caller.language,
                         top_k |-> tasks.caller.top_k,
                         query_embedding |-> tasks.caller.query_embedding,
                         found |-> tasks.caller.found,
                         raised |-> out.raised, results |-> out.results]]
    /\ self' = EngineAfterSearch(self)
    /\ UNCHANGED <<build_vars, disk, lpc, load_error, call, dispatch_cache,
                   livekit, request, agent>>

\* the caller has taken the result of its call
TaskReturn ==
    /\ tasks.caller.pc = "returned"
    /\ tasks' = [tasks EXCEPT !.caller = IdleTask]
    /\ UNCHANGED <<build_vars, disk, load_vars, call, dispatch_cache,
                   livekit, request, agent>>

\* the other thread enters search
OtherSearchBegins ==
    /\ lpc = "ready"
    /\ tasks.other.pc = "idle"
    /\ tasks' = [tasks EXCEPT !.other = [pc |-> "searching"]]
    /\ UNCHANGED <<build_vars, disk, load_vars, call, dispatch_cache,
                   livekit, request, agent>>

\* the other thread leaves search
OtherSearchEnds ==
    /\ tasks.other.pc = "searching"
    /\ tasks' = [tasks EXCEPT !.other = IdleTask]
    /\ self' = EngineAfterSearch(self)
    /\ UNCHANGED <<build_vars, disk, lpc, load_error, call, dispatch_cache,
                   livekit, request, agent>>

\* the caller takes the returned value; the engine is free for the next call
Return ==
    /\ call # NoCall
    /\ call' = NoCall
    /\ UNCHANGED <<build_vars, disk, load_vars, app_vars>>

(***************************************************************************)
(* backend/server.py: POST /api/token and ensure_agent_dispatch            *)
(***************************************************************************)
\* everything of the retrieval side, which the server does not touch
engine_vars == <<build_vars, disk, load_vars, call, tasks>>

\* the rooms and the participants of the requests
Rooms == {"brand-new-room", "lobby"}
Participants == {"Alice", "Bob"}

\* a LiveKit server without rooms and without dispatches of the agent
EmptyLiveKit == [rooms |-> {}, dispatches |-> [r \in Rooms |-> 0]]

\* no request of a participant is being handled
NoRequest == [pc |-> "none"]

\* the answers of lk_api.agent_dispatch.list_dispatch(room_name): the
\* dispatches of the room, or a TwirpError (the room is unknown to the
\* server, or the server cannot be reached)
ListDispatch(room) ==
    IF room \in livekit.rooms
    THEN {[error |-> "", agent_dispatched |-> livekit.dispatches[room] > 0],
          [error |-> "UNAVAILABLE", agent_dispatched |-> FALSE]}
    ELSE {[error |-> "NOT_FOUND", agent_dispatched |-> FALSE],
          [error |-> "UNAVAILABLE", agent_dispatched |-> FALSE]}

\* the answers of lk_api.agent_dispatch.create_dispatch(...)
CreateDispatch(room) ==
    IF livekit.dispatches[room] > 0 THEN {"ALREADY_EXISTS", "UNAVAILABLE"}
    ELSE {"", "UNAVAILABLE"}

\* every TwirpError is let through as if it were ALREADY_EXISTS
TwirpErrorIgnored(code) == 0

\* except TwirpError: the status ensure_agent_dispatch ends with, 0 for a
\* plain return; HTTPException(500) is caught by generate_token's
\* `except Exception` and raised again as a 500
AfterTwirpError(code) == IF code = "ALREADY_EXISTS" THEN 0 ELSE 500

\* the cache is never found to hold the room
NeverCached(room) == FALSE

\* if room_name in _dispatch_cache: return
CacheHit(room) == room \in dispatch_cache

\* the request of participant p is inside generate_token
Handling(p) == request[p].pc \in {"ensure", "create", "to_jwt"}

\* a client posts {roomName, participantName}; generate_token builds the
\* access token and calls ensure_agent_dispatch.  The handlers are
\* coroutines of one event loop: the requests of two participants
\* interleave at the awaits of ensure_agent_dispatch.
PostToken(p) ==
    /\ request[p] = NoRequest
    /\ \E room \in Rooms :
         request' =
            [request EXCEPT ![p] =
                [pc |-> "ensure", roomName |-> room, participantName |-> p,
                 list_error |-> "", create_error |-> "",
                 created_rooms |-> <<>>, list_calls |-> 0,
                 create_calls |-> 0, status |-> 0, jwt |-> FALSE]]
    /\ UNCHANGED <<engine_vars, dispatch_cache, livekit, agent>>

\* ensure_agent_dispatch up to the end of the loop over the dispatches:
\* the cache is asked, then the LiveKit server
EnsureListDispatch(p) ==
    /\ request[p].pc = "ensure"
    /\ IF CacheHit(request[p].roomName)
       THEN /\ request' = [request EXCEPT ![p].pc = "to_jwt"]
            /\ UNCHANGED dispatch_cache
       ELSE \E listed \in ListDispatch(request[p].roomName) :
              IF listed.error # ""
              THEN /\ request' =
                         [request EXCEPT
                            ![p].list_calls = @ + 1,
                            ![p].list_error = listed.error,
                            ![p].status = AfterTwirpError(listed.error),
                            ![p].pc = IF AfterTwirpError(listed.error) = 0
                                      THEN "to_jwt" ELSE "responded"]
                   /\ dispatch_cache' =
                         IF listed.error = "ALREADY_EXISTS"
                         THEN dispatch_cache \cup {request[p].roomName}
                         ELSE dispatch_cache
              ELSE IF listed.agent_dispatched
              THEN /\ dispatch_cache' =
                         dispatch_cache \cup {request[p].roomName}
                   /\ request' = [request EXCEPT ![p].list_calls = @ + 1,
                                                 ![p].pc = "to_jwt"]
              ELSE /\ request' = [request EXCEPT ![p].list_calls = @ + 1,
                                                 ![p].pc = "create"]
                   /\ UNCHANGED dispatch_cache
    /\ UNCHANGED <<engine_vars, livekit, agent>>

\* await lk_api.agent_dispatch.create_dispatch(...) and what follows it
EnsureCreateDispatch(p) ==
    /\ request[p].pc = "create"
    /\ \E error \in CreateDispatch(request[p].roomName) :
         /\ livekit' =
               IF error = ""
               THEN [livekit EXCEPT
                       !.dispatches[request[p].roomName] = @ + 1]
               ELSE livekit
         /\ dispatch_cache' =
               IF error \in {"", "ALREADY_EXISTS"}
               THEN dispatch_cache \cup {request[p].roomName}
               ELSE dispatch_cache
         /\ request' =
               [request EXCEPT
                  ![p].create_calls = @ + 1,
                  ![p].create_error = error,
                  ![p].status =
                      IF error = "" THEN 0 ELSE AfterTwirpError(error),
                  ![p].pc = IF error = "" \/ AfterTwirpError(error) = 0
                            THEN "to_jwt" ELSE "responded"]
    /\ UNCHANGED <<engine_vars, agent>>

\* jwt_token = token.to_jwt(); return TokenResponse(...)
RespondToken(p) ==
    /\ request[p].pc = "to_jwt"
    /\ request' = [request EXCEPT ![p].status = 200, ![p].jwt = TRUE,
                                  ![p].pc = "responded"]
    /\ UNCHANGED <<engine_vars, dispatch_cache, livekit, agent>>

\* the client has the response
CloseRequest(p) ==
    /\ request[p].pc = "responded"
    /\ request' = [request EXCEPT ![p] = NoRequest]
    /\ UNCHANGED <<engine_vars, dispatch_cache, livekit, agent>>

\* a room comes to exist on the LiveKit server (a participant joined it)
RoomOpens ==
    /\ \E room \in Rooms \ livekit.rooms :
         livekit' = [livekit EXCEPT !.rooms = @ \cup {room}]
    /\ UNCHANGED <<engine_vars, dispatch_cache, request, agent>>

\* the server process is started again: the module is loaded anew
ServerRestarts ==
    /\ \A p \in Participants : request[p] = NoRequest
    /\ dispatch_cache # {}
    /\ dispatch_cache' = {}
    /\ UNCHANGED <<engine_vars, livekit, request, agent>>

(***************************************************************************)
(* The voice agents: backend/voice_agent.py (search_knowledge_base) and    *)
(* voice_agent.py (on_user_turn_completed)                                 *)
(***************************************************************************)
AgentKinds == {"backend", "optimized"}
NoAgent == [pc |-> "none"]

\* what the user said in a turn: nothing, English, Hindi
Utterances ==
    {[text |-> " ", devanagari |-> FALSE],
     [text |-> "How do I pay?", devanagari |-> FALSE],
     [text |-> "Bhugtan kaise karun? (in Devanagari)", devanagari |-> TRUE]}

\* detect_language: 'hi' when a character of the text is Devanagari
detect_language(said) == IF said.devanagari THEN "hi" ELSE "en"

\* user_text.strip() is empty
Blank(said) == said.text = " "

\* the top_k both agents pass to get_context_for_llm
AgentTopK == 3

\* self.vector_search.get_context_for_llm(query, language, top_k=3): the
\* embedding request fails, or search runs and its results are formatted
Lookup(language) ==
    {[raised |-> Failed("query").raised, context |-> <<>>]} \cup
    UNION {{LET out == SearchResults(self.metadata.value, found, language,
                                     AgentTopK)
            IN  [raised |-> out.raised,
                 context |-> IF out.raised = "" THEN FormatContext(out.results)
                             ELSE <<>>] :
            found \in IndexSearch(self.index.value, query_embedding,
                                  Overfetch(AgentTopK))} :
           query_embedding \in get_embedding("query")}

\* a body without the try statement: the exception leaves the function
WithoutExcept(raised) == raised

\* try: ... except Exception as e: (log, report) -- the exception that
\* leaves the try statement
AfterExcept(raised) == ""

\* EVChargingAssistant.__init__ of either agent: VectorSearch() has
\* returned an engine or raised, and the agent is constructed
AgentStarts ==
    /\ agent = NoAgent
    /\ lpc \in {"ready", "raised"}
    /\ \E kind \in AgentKinds :
         agent' = [pc |-> "idle", kind |-> kind,
                   vector_search |-> lpc = "ready",
                   raised |-> AfterExcept(load_error)]
    /\ UNCHANGED <<engine_vars, dispatch_cache, livekit, request>>

\* backend agent: the LLM calls the tool search_knowledge_base(query)
SearchKnowledgeBase ==
    /\ agent.pc = "idle"
    /\ agent.kind = "backend"
    /\ agent.raised = ""
    /\ \E query \in Utterances :
         IF ~agent.vector_search
         THEN agent' =
                 [pc |-> "returned", kind |-> agent.kind,
                  vector_search |-> agent.vector_search, raised |-> "",
                  lookup |-> "none", context |-> <<>>,
                  status_task |-> "none",
                  returned |-> <<"Knowledge base is not available. ",
                                 "Please transfer to human agent.">>,
                  added |-> <<>>]
         ELSE \E out \in Lookup(detect_language(query)) :
                agent' =
                 [pc |-> "returned", kind |-> agent.kind,
                  vector_search |-> agent.vector_search,
                  raised |-> AfterExcept(out.raised),
                  lookup |-> IF out.raised = "" THEN "returned" ELSE "raised",
                  context |-> out.context,
                  status_task |-> "none",
                  returned |->
                      IF AfterExcept(out.raised) # "" THEN <<>>
                      ELSE IF out.raised # ""
                      THEN <<"Error accessing knowledge base. ",
                             "Please transfer to human agent.">>
                      ELSE IF Len(out.context) > 0
                      THEN <<"RELEVANT INFORMATION FROM KNOWLEDGE BASE:\n">>
                               \o out.context
                      ELSE <<"No relevant information found in the ",
                             "knowledge base for this query.">>,
                  added |-> <<>>]
    /\ UNCHANGED <<engine_vars, dispatch_cache, livekit, request>>

\* how long the lookup of a turn takes, against the delay of 0.5 s the
\* status task sleeps before it speaks
LookupDurations == {"under_delay", "over_delay"}

\* the status task when get_context_for_llm returns or raises: the call is
\* made without await, the event loop runs no other task while it lasts,
\* and the task created just before it has not started however long the
\* call took
StatusTaskAfterLookup(took) == "pending"

\* optimized agent: on_user_turn_completed(turn_ctx, new_message).  The
\* lookup is a blocking call, so the status task created before it has not
\* run when the lookup ends; it is cancelled and awaited on both paths.
OnUserTurnCompleted ==
    /\ agent.pc = "idle"
    /\ agent.kind = "optimized"
    /\ agent.raised = ""
    /\ \E said \in Utterances :
         IF ~agent.vector_search \/ Blank(said)
         THEN agent' =
                 [pc |-> "returned", kind |-> agent.kind,
                  vector_search |-> agent.vector_search, raised |-> "",
                  lookup |-> "none", context |-> <<>>,
                  status_task |-> "none", took |-> "none",
                  statuses |-> <<>>,
                  returned |-> <<>>, added |-> <<>>]
         ELSE \E out \in Lookup(detect_language(said)),
                 took \in LookupDurations :
                agent' =
                 [pc |-> "returned", kind |-> agent.kind,
                  vector_search |-> agent.vector_search,
                  raised |-> AfterExcept(out.raised),
                  lookup |-> IF out.raised = "" THEN "returned" ELSE "raised",
                  context |-> out.context,
                  status_task |->
                      IF StatusTaskAfterLookup(took) = "spoken"
                      THEN "done"
                      ELSE IF AfterExcept(out.raised) # ""
                      THEN "pending" ELSE "cancelled",
                  took |-> took,
                  statuses |->
                      <<"searching">>
                      \o (IF StatusTaskAfterLookup(took) = "spoken"
                          THEN <<"speaking">> ELSE <<>>)
                      \o (IF AfterExcept(out.raised) # "" THEN <<>>
                          ELSE IF out.raised # "" THEN <<"error">>
                          ELSE <<"complete">>),
                  returned |-> <<>>,
                  added |->
                      IF out.raised # "" THEN <<>>
                      ELSE IF Len(out.context) > 0
                      THEN <<"RELEVANT INFORMATION FROM KNOWLEDGE BASE:\n">>
                               \o out.context
                               \o <<"\n\nUse this information to answer ",
                                    "the user's question accurately.">>
                      ELSE <<"No relevant information found in the ",
                             "knowledge base for this query. ",
                             "Offer to transfer to human agent.">>]
    /\ UNCHANGED <<engine_vars, dispatch_cache, livekit, request>>

\* the framework goes on with the turn
TurnGoesOn ==
    /\ agent.pc = "returned"
    /\ agent.raised = ""
    /\ agent' = [pc |-> "idle", kind |-> agent.kind,
                 vector_search |-> agent.vector_search, raised |-> ""]
    /\ UNCHANGED <<engine_vars, dispatch_cache, livekit, request>>

(***************************************************************************)
(* Specification                                                           *)
(***************************************************************************)
Init ==
    /\ faqs \in Corpora
    /\ bpc = "start"
    /\ idx = 0
    /\ embeddings_list = <<>>
    /\ metadata_list = <<>>
    /\ disk = [index |-> NoFile, metadata |-> NoFile]
    /\ lpc = "idle"
    /\ self = NewObject
    /\ load_error = ""
    /\ call = NoCall
    /\ build_error = ""
    /\ provider_log = <<>>
    /\ runs = <<>>
    /\ tasks = [caller |-> IdleTask, other |-> IdleTask]
    /\ dispatch_cache = {}
    /\ livekit = EmptyLiveKit
    /\ request = [p \in Participants |-> NoRequest]
    /\ agent = NoAgent

\* every operation of the repository; the properties are checked under the
\* specifications below, each with the operations it is about
Next ==
    \/ BuildStart
    \/ BuildEnglish
    \/ BuildHindi
    \/ BuildIndexAdd
    \/ BuildWriteIndex
    \/ BuildWriteMetadata
    \/ Construct
    \/ LoadCheckIndex
    \/ LoadReadIndex
    \/ LoadMetadata
    \/ Search
    \/ GetContextForLlm
    \/ Return
    \/ BuildEmbeddingFails
    \/ BuildWriteMetadataFails
    \/ Rerun
    \/ Rebuild
    \/ SearchOtherModel
    \/ SearchEmbeddingFails
    \/ TaskEmbed
    \/ TaskIndexSearch
    \/ TaskLoop
    \/ TaskReturn
    \/ OtherSearchBegins
    \/ OtherSearchEnds
    \/ \E p \in Participants : PostToken(p)
    \/ \E p \in Participants : EnsureListDispatch(p)
    \/ \E p \in Participants : EnsureCreateDispatch(p)
    \/ \E p \in Participants : RespondToken(p)
    \/ \E p \in Participants : CloseRequest(p)
    \/ RoomOpens
    \/ ServerRestarts
    \/ AgentStarts
    \/ SearchKnowledgeBase
    \/ OnUserTurnCompleted
    \/ TurnGoesOn

Spec == Init /\ [][Next]_vars

\* the builder and the constructor of the engine
NextIndex ==
    \/ BuildStart
    \/ BuildEnglish
    \/ BuildHindi
    \/ BuildIndexAdd
    \/ BuildWriteIndex
    \/ BuildWriteMetadata
    \/ Construct
    \/ LoadCheckIndex
    \/ LoadReadIndex
    \/ LoadMetadata

SpecIndex == Init /\ [][NextIndex]_vars

\* the builder, the constructor and the callers of search
NextSearch ==
    \/ BuildStart
    \/ BuildEnglish
    \/ BuildHindi
    \/ BuildIndexAdd
    \/ BuildWriteIndex
    \/ BuildWriteMetadata
    \/ Construct
    \/ LoadCheckIndex
    \/ LoadReadIndex
    \/ LoadMetadata
    \/ Search
    \/ Return

SpecSearch == Init /\ [][NextSearch]_vars

\* the builder, the constructor and the callers of get_context_for_llm
NextContext ==
    \/ BuildStart
    \/ BuildEnglish
    \/ BuildHindi
    \/ BuildIndexAdd
    \/ BuildWriteIndex
    \/ BuildWriteMetadata
    \/ Construct
    \/ LoadCheckIndex
    \/ LoadReadIndex
    \/ LoadMetadata
    \/ GetContextForLlm
    \/ Return

SpecContext == Init /\ [][NextContext]_vars

\* build_index run on a file that may hold malformed entries
InitMalformed ==
    /\ faqs \in MalformedCorpora
    /\ bpc = "start"
    /\ idx = 0
    /\ embeddings_list = <<>>
    /\ metadata_list = <<>>
    /\ disk = [index |-> NoFile, metadata |-> NoFile]
    /\ lpc = "idle"
    /\ self = NewObject
    /\ load_error = ""
    /\ call = NoCall
    /\ build_error = ""
    /\ provider_log = <<>>
    /\ runs = <<>>
    /\ tasks = [caller |-> IdleTask, other |-> IdleTask]
    /\ dispatch_cache = {}
    /\ livekit = EmptyLiveKit
    /\ request = [p \in Participants |-> NoRequest]
    /\ agent = NoAgent

NextMalformed ==
    \/ BuildStart
    \/ BuildEnglish
    \/ BuildHindi
    \/ BuildIndexAdd
    \/ BuildWriteIndex
    \/ BuildWriteMetadata

SpecMalformed == InitMalformed /\ [][NextMalformed]_vars

\* the builder, the constructor and the callers of search, with an
\* embedding provider that may fail
NextFailure ==
    \/ BuildStart
    \/ BuildEnglish
    \/ BuildHindi
    \/ BuildEmbeddingFails
    \/ BuildIndexAdd
    \/ BuildWriteIndex
    \/ BuildWriteMetadata
    \/ Construct
    \/ LoadCheckIndex
    \/ LoadReadIndex
    \/ LoadMetadata
    \/ Search
    \/ SearchEmbeddingFails
    \/ Return

SpecFailure == Init /\ [][NextFailure]_vars

\* the builder, the constructor and the callers of search, on engines of
\* the builder's embedding model and of another
NextDimension ==
    \/ BuildStart
    \/ BuildEnglish
    \/ BuildHindi
    \/ BuildIndexAdd
    \/ BuildWriteIndex
    \/ BuildWriteMetadata
    \/ Construct
    \/ LoadCheckIndex
    \/ LoadReadIndex
    \/ LoadMetadata
    \/ Search
    \/ SearchOtherModel
    \/ Return

SpecDimension == Init /\ [][NextDimension]_vars

\* the builder, the constructor and two threads that call search
NextConcurrent ==
    \/ BuildStart
    \/ BuildEnglish
    \/ BuildHindi
    \/ BuildIndexAdd
    \/ BuildWriteIndex
    \/ BuildWriteMetadata
    \/ Construct
    \/ LoadCheckIndex
    \/ LoadReadIndex
    \/ LoadMetadata
    \/ TaskEmbed
    \/ TaskIndexSearch
    \/ TaskLoop
    \/ TaskReturn
    \/ OtherSearchBegins
    \/ OtherSearchEnds

SpecConcurrent == Init /\ [][NextConcurrent]_vars

\* build_index run twice
NextRerun ==
    \/ BuildStart
    \/ BuildEnglish
    \/ BuildHindi
    \/ BuildIndexAdd
    \/ BuildWriteIndex
    \/ BuildWriteMetadata
    \/ Rerun

SpecRerun == Init /\ [][NextRerun]_vars

\* build_index run before and after an edit of the faq file, its second
\* write possibly failing, while engines are constructed on the directory
NextRebuild ==
    \/ BuildStart
    \/ BuildEnglish
    \/ BuildHindi
    \/ BuildIndexAdd
    \/ BuildWriteIndex
    \/ BuildWriteMetadata
    \/ BuildWriteMetadataFails
    \/ Rebuild
    \/ Construct
    \/ LoadCheckIndex
    \/ LoadReadIndex
    \/ LoadMetadata

SpecRebuild == Init /\ [][NextRebuild]_vars

\* the token endpoint, the LiveKit server and the clients
NextServer ==
    \/ \E p \in Participants : PostToken(p)
    \/ \E p \in Participants : EnsureListDispatch(p)
    \/ \E p \in Participants : EnsureCreateDispatch(p)
    \/ \E p \in Participants : RespondToken(p)
    \/ \E p \in Participants : CloseRequest(p)
    \/ RoomOpens
    \/ ServerRestarts

SpecServer == Init /\ [][NextServer]_vars

\* the faq files with as many entries as an agent's lookup asks neighbours
\* for, so that the neighbours of a query can all be of one language
LargeCorpora ==
    {[i \in 1..Overfetch(AgentTopK) |-> IF i % 2 = 1 THEN odd ELSE even] :
        odd \in FaqData, even \in FaqData}

\* the records of a corpus as build_index appends them
RECURSIVE MetadataOf(_)
MetadataOf(corpus) ==
    IF Len(corpus) = 0 THEN <<>>
    ELSE <<MetadataEn(corpus[1]), MetadataHi(corpus[1])>>
             \o MetadataOf(Tail(corpus))

\* the vectors of a corpus when the provider answers every English text
\* with en_embedding and every Hindi text with hi_embedding
VectorsOf(corpus, en_embedding, hi_embedding) ==
    [i \in 1..(2 * Len(corpus)) |->
        IF i % 2 = 1 THEN en_embedding ELSE hi_embedding]

\* the requests build_index has sent for a corpus answered in that way
RequestsOf(corpus, en_embedding, hi_embedding) ==
    [i \in 1..(2 * Len(corpus)) |->
        LET faq == corpus[(i + 1) \div 2]
        IN  IF i % 2 = 1
            THEN Answered(EmbedText(faq.question_en, faq.answer_en),
                          en_embedding)
            ELSE Answered(EmbedText(faq.question_hi, faq.answer_hi),
                          hi_embedding)]

\* build_index has completed on a large corpus, the provider having
\* answered the texts of the two languages with two different vectors
InitLarge ==
    /\ faqs \in LargeCorpora
    /\ bpc = "done"
    /\ idx = Len(faqs)
    /\ \E en_embedding, hi_embedding \in Vecs :
         /\ en_embedding # hi_embedding
         /\ embeddings_list = VectorsOf(faqs, en_embedding, hi_embedding)
         /\ provider_log = RequestsOf(faqs, en_embedding, hi_embedding)
    /\ metadata_list = MetadataOf(faqs)
    /\ disk = [index |-> File(embeddings_list),
               metadata |-> File(metadata_list)]
    /\ lpc = "idle"
    /\ self = NewObject
    /\ load_error = ""
    /\ call = NoCall
    /\ build_error = ""
    /\ runs = <<>>
    /\ tasks = [caller |-> IdleTask, other |-> IdleTask]
    /\ dispatch_cache = {}
    /\ livekit = EmptyLiveKit
    /\ request = [p \in Participants |-> NoRequest]
    /\ agent = NoAgent

\* the constructor and a voice agent on the index of a large corpus
NextLarge ==
    \/ Construct
    \/ LoadCheckIndex
    \/ LoadReadIndex
    \/ LoadMetadata
    \/ AgentStarts
    \/ SearchKnowledgeBase
    \/ OnUserTurnCompleted
    \/ TurnGoesOn

SpecLarge == InitLarge /\ [][NextLarge]_vars

\* the builder, the constructor and a voice agent, with an embedding
\* provider that may fail
NextAgent ==
    \/ BuildStart
    \/ BuildEnglish
    \/ BuildHindi
    \/ BuildIndexAdd
    \/ BuildWriteIndex
    \/ BuildWriteMetadata
    \/ Construct
    \/ LoadCheckIndex
    \/ LoadReadIndex
    \/ LoadMetadata
    \/ AgentStarts
    \/ SearchKnowledgeBase
    \/ OnUserTurnCompleted
    \/ TurnGoesOn

SpecAgent == Init /\ [][NextAgent]_vars

(***************************************************************************)
(* Properties of build_index                                               *)
(***************************************************************************)
\* the positions of the metadata sequence with the given id and language
RecordsOf(metadata, id, language) ==
    {i \in 1..Len(metadata) :
        metadata[i].id = id /\ metadata[i].language = language}

\* the positions of the corpus whose entry carries the given id
EntriesOf(corpus, id) == {e \in 1..Len(corpus) : corpus[e].id = id}

BuildCompleted == bpc = "done"

\* C1 as stated: once build_index has completed on a corpus of N entries,
\* the vector file and the metadata file both hold 2N items, every metadata
\* record has language "en" or "hi", and every source id is shared by
\* exactly two records, one per language.
C1_TwoRecordsPerId ==
    BuildCompleted =>
        /\ Len(disk.index.data) = 2 * Len(faqs)
        /\ Len(disk.metadata.data) = 2 * Len(faqs)
        /\ \A i \in 1..Len(disk.metadata.data) :
               disk.metadata.data[i].language \in {"en", "hi"}
        /\ \A e \in 1..Len(faqs) :
               /\ Cardinality(RecordsOf(disk.metadata.data, faqs[e].id, "en")) = 1
               /\ Cardinality(RecordsOf(disk.metadata.data, faqs[e].id, "hi")) = 1

\* C1 amended: once build_index has completed on a corpus of N entries, both
\* files hold 2N items, every metadata record has language "en" or "hi", no
\* record carries an id foreign to the corpus, and an id carried by m
\* entries of the corpus is shared by exactly 2m records, m per language
\* (exactly two, one per language, when the ids of the corpus are distinct).
C1_RecordsPerId ==
    BuildCompleted =>
        /\ Len(disk.index.data) = 2 * Len(faqs)
        /\ Len(disk.metadata.data) = 2 * Len(faqs)
        /\ \A i \in 1..Len(disk.metadata.data) :
               /\ disk.metadata.data[i].language \in {"en", "hi"}
               /\ EntriesOf(faqs, disk.metadata.data[i].id) # {}
        /\ \A e \in 1..Len(faqs) :
               LET m == Cardinality(EntriesOf(faqs, faqs[e].id))
               IN  /\ Cardinality(RecordsOf(disk.metadata.data, faqs[e].id, "en")) = m
                   /\ Cardinality(RecordsOf(disk.metadata.data, faqs[e].id, "hi")) = m

\* a build that completed on two entries with different ids
C1_Witness ==
    /\ BuildCompleted
    /\ Len(faqs) = 2
    /\ faqs[1].id # faqs[2].id

(***************************************************************************)
(* Properties of search                                                    *)
(***************************************************************************)
\* search has run (directly, or inside get_context_for_llm)
Searched == call.op \in {"search", "get_context_for_llm"}

\* search has run and returned a list
Returned == Searched /\ call.raised = ""

\* the labels of real records among the neighbour slots of the last call
RealSlots == {j \in 1..Len(call.found.I) : call.found.I[j] >= 0}

\* the record of the loaded metadata a real slot points to
SlotRecord(j) == self.metadata.value[call.found.I[j] + 1]

\* the positions of the loaded metadata whose language is `language`
IndexedIn(language) ==
    {i \in 1..Len(self.metadata.value) :
        self.metadata.value[i].language = language}

\* C2: with a non-empty language filter L, every record search returns has
\* language L.
C2_LanguageFilter ==
    (Returned /\ call.language # "") =>
        \A r \in 1..Len(call.results) :
            call.results[r].language = call.language

\* a Hindi search that returned a record although an English record was
\* among the neighbours
C2_Witness ==
    /\ Returned
    /\ call.arg = "hi"
    /\ Len(call.results) > 0
    /\ \E j \in RealSlots : SlotRecord(j).language = "en"

\* C3: for a positive top_k the list search returns has between 0 and top_k
\* elements.
C3_AtMostTopK ==
    (Returned /\ call.top_k > 0) =>
        /\ Len(call.results) >= 0
        /\ Len(call.results) <= call.top_k

\* a search without filter for one record on an index of four: the loop was
\* left with further candidates unread
C3_Witness ==
    /\ Returned
    /\ call.arg = ""
    /\ call.top_k = 1
    /\ Len(call.results) = 1
    /\ Len(self.metadata.value) = 4

\* C4 as stated: search returns an empty list only if the whole index holds
\* no record of language L; with at least one L-language record anywhere in
\* the index the result is non-empty.
C4_EmptyOnlyIfNoneIndexed ==
    (Returned /\ call.language # "" /\ call.results = <<>>) =>
        IndexedIn(call.language) = {}

\* C4 amended: search asks the index for the 2*top_k nearest records and
\* returns an empty list only if none of those has language L; with at
\* least one L-language record among the 2*top_k nearest the result is
\* non-empty (a record of language L outside that window is not returned).
C4_EmptyOnlyIfNoneInWindow ==
    (Returned /\ call.language # "") =>
        /\ Len(call.found.I) = 2 * call.top_k
        /\ call.results = <<>> =>
               \A j \in RealSlots : SlotRecord(j).language # call.language

\* an empty Hindi result on an index that holds Hindi records
C4_Witness ==
    /\ Returned
    /\ call.arg = "hi"
    /\ call.results = <<>>
    /\ IndexedIn("hi") # {}

\* a/b >= c/d for fractions with positive denominators
ScoreAtLeast(x, y) == x.num * y.den >= y.num * x.den

\* the score is in (0, 1]
ScoreInRange(x) == x.num > 0 /\ x.den > 0 /\ x.num <= x.den

\* the result an indexed record gives when scored by its own distance to
\* the query of the last call
ScoredByOwnDistance(i) ==
    ResultEntry(self.metadata.value[i],
                L2sqr(self.index.value[i], call.query_embedding))

\* C5: in every list search returns the scores are non-increasing from first
\* to last, every score lies in (0, 1], and every element is an indexed
\* record with the score 1/(1+d) of that record's distance d to the query.
C5_ScoresOfDistances ==
    Returned =>
        /\ \A r \in 1..Len(call.results) :
               /\ ScoreInRange(call.results[r].similarity_score)
               /\ \E i \in 1..Len(self.metadata.value) :
                      call.results[r] = ScoredByOwnDistance(i)
        /\ \A r \in 1..(Len(call.results) - 1) :
               ScoreAtLeast(call.results[r].similarity_score,
                            call.results[r + 1].similarity_score)

\* C6: on the index of a one-entry corpus, search with filter "en" or "hi"
\* and any top_k >= 1 returns exactly one result, the entry's record of that
\* language with the entry's category, and its score is 1 when the query
\* vector equals the stored vector of that record.
C6_OneEntryOneResult ==
    (Returned /\ Len(faqs) = 1 /\ call.arg \in {"en", "hi"}) =>
        LET i == IF call.arg = "en" THEN 1 ELSE 2
            stored == IF call.arg = "en" THEN MetadataEn(faqs[1])
                      ELSE MetadataHi(faqs[1])
        IN  /\ Len(call.results) = 1
            /\ call.results[1].language = call.arg
            /\ call.results[1].category = faqs[1].category
            /\ call.results[1].question = stored.question
            /\ call.results[1].answer = stored.answer
            /\ call.query_embedding = self.index.value[i] =>
                   call.results[1].similarity_score = [num |-> 1, den |-> 1]

\* the result the code makes of neighbour slot j
SlotResult(j) ==
    ResultEntry(ListItem(self.metadata.value, call.found.I[j]),
                call.found.D[j])

\* the results are the first top_k neighbour slots, whatever their language
FirstSlotsKept ==
    /\ Len(call.results) = call.top_k
    /\ \A r \in 1..call.top_k : call.results[r] = SlotResult(r)

\* C8 as stated: a search whose language argument is omitted or empty
\* applies no language filter; records of both languages are eligible and
\* the result is the top_k nearest records regardless of language.
C8_OmittedOrEmptyNoFilter ==
    (Returned /\ call.arg \in {Omitted, ""}) => FirstSlotsKept

\* C8 amended: a search whose language argument is the empty string applies
\* no language filter: no neighbour is dropped for its language and the
\* result is the first top_k of the neighbour slots the index reports, which
\* are the top_k nearest records when the index holds at least top_k
\* records.  A search that omits the argument takes the default "en" and
\* returns English records only.
C8_EmptyNoFilterOmittedEnglish ==
    /\ (Returned /\ call.arg = "") =>
           /\ FirstSlotsKept
           /\ Len(self.metadata.value) >= call.top_k =>
                  \A r \in 1..call.top_k : call.found.I[r] >= 0
    /\ (Returned /\ call.arg = Omitted) =>
           /\ call.language = "en"
           /\ \A r \in 1..Len(call.results) :
                  call.results[r].language = "en"

\* a search with the empty language that returned a Hindi record before an
\* English one
C8_Witness ==
    /\ Returned
    /\ call.arg = ""
    /\ Len(call.results) = 2
    /\ call.results[1].language = "hi"
    /\ call.results[2].language = "en"

\* C9: search with a language filter that no indexed record carries returns
\* an empty list and raises no error.
C9_UnknownLanguageEmpty ==
    (Searched /\ call.language # "" /\ IndexedIn(call.language) = {}) =>
        /\ call.raised = ""
        /\ call.results = <<>>

\* a search for "fr" on an index of four records
C9_Witness ==
    /\ Searched
    /\ call.arg = "fr"
    /\ Len(self.metadata.value) = 4
    /\ call.results = <<>>


(***************************************************************************)
(* Properties of get_context_for_llm                                       *)
(***************************************************************************)
\* the pieces of `wanted` occur in `text`, in the order of `wanted`
RECURSIVE ContainsInOrder(_, _)
ContainsInOrder(wanted, text) ==
    IF Len(wanted) = 0 THEN TRUE
    ELSE IF Len(text) = 0 THEN FALSE
    ELSE IF Head(text) = Head(wanted)
    THEN ContainsInOrder(Tail(wanted), Tail(text))
    ELSE ContainsInOrder(wanted, Tail(text))

\* question and answer of every result, in the order of the results
RECURSIVE QuestionsAndAnswers(_)
QuestionsAndAnswers(results) ==
    IF Len(results) = 0 THEN <<>>
    ELSE <<Head(results).question, Head(results).answer>>
             \o QuestionsAndAnswers(Tail(results))

ContextReturned == call.op = "get_context_for_llm" /\ call.raised = ""

\* C7: get_context_for_llm returns exactly "No similar FAQs found." when its
\* search returned an empty list, and otherwise a non-empty text that holds
\* the question and the answer of every match verbatim, in the order of the
\* matches.
C7_ContextText ==
    ContextReturned =>
        IF call.results = <<>>
        THEN call.context = NoSimilarFaqs
        ELSE /\ Len(call.context) > 0
             /\ \A p \in 1..Len(call.context) : call.context[p] # ""
             /\ ContainsInOrder(QuestionsAndAnswers(call.results),
                                call.context)

\* a context built from two different matches
C7_Witness ==
    /\ ContextReturned
    /\ Len(call.results) = 2
    /\ call.results[1].question # call.results[2].question

(***************************************************************************)
(* Properties of VectorSearch.__init__                                     *)
(***************************************************************************)
\* C10: constructing the engine fails with a not-found error and yields no
\* engine when the vector file or the metadata file is absent: the
\* constructor gets past neither file while it is absent, every failure is
\* a FileNotFoundError that leaves no constructed engine, and an engine
\* that exists holds the vectors and the metadata of the two files.
C10_NoPartialEngine ==
    /\ lpc \in {"read_index", "open_metadata", "ready"} => disk.index.exists
    /\ lpc = "ready" => disk.metadata.exists
    /\ lpc = "raised" =>
           /\ load_error = "FileNotFoundError"
           /\ ~self.constructed
    /\ self.constructed <=> lpc = "ready"
    /\ self.constructed =>
           /\ self.index = Attr(disk.index.data)
           /\ self.metadata = Attr(disk.metadata.data)

\* a construction that read the vector file and failed on the absent
\* metadata file
C10_Witness ==
    /\ lpc = "raised"
    /\ self.index.set
    /\ ~disk.metadata.exists

(***************************************************************************)
(* Order of the indexed records                                            *)
(***************************************************************************)
\* the record at 0-based position p of the metadata file is the version of
\* entry `faq` in `language` with the given texts, and the vector at the
\* same position is the provider's answer to the text of that version
RecordAt(p, faq, language, question, answer) ==
    /\ disk.metadata.data[p + 1].language = language
    /\ disk.metadata.data[p + 1].question = question
    /\ disk.metadata.data[p + 1].answer = answer
    /\ disk.metadata.data[p + 1].id = faq.id
    /\ disk.metadata.data[p + 1].category = faq.category
    /\ provider_log[p + 1].text = EmbedText(question, answer)
    /\ disk.index.data[p + 1] = provider_log[p + 1].embedding

\* C19: once build_index has completed on a corpus of N entries, the
\* English record of entry i is at position 2i and its Hindi record at
\* position 2i+1 (0-based, entries in corpus order) of both the vector
\* and the metadata sequence, and the two records of an entry carry the
\* same id and the same category.
C19_EnglishThenHindi ==
    BuildCompleted =>
        \A i \in 0..(Len(faqs) - 1) :
            LET faq == faqs[i + 1]
            IN  /\ RecordAt(2 * i, faq, "en", faq.question_en, faq.answer_en)
                /\ RecordAt(2 * i + 1, faq, "hi",
                            faq.question_hi, faq.answer_hi)
                /\ disk.metadata.data[2 * i + 1].id
                       = disk.metadata.data[2 * i + 2].id
                /\ disk.metadata.data[2 * i + 1].category
                       = disk.metadata.data[2 * i + 2].category

\* a completed build of two different entries whose English and Hindi
\* vectors differ, so that a swap of positions would show
C19_Witness ==
    /\ BuildCompleted
    /\ Len(faqs) = 2
    /\ faqs[1] # faqs[2]
    /\ disk.index.data[1] # disk.index.data[2]
    /\ disk.index.data[3] # disk.index.data[4]

(***************************************************************************)
(* Malformed entries                                                       *)
(***************************************************************************)
\* the entry has all six required fields and none of them is empty
WellFormed(faq) ==
    /\ HasKeys(faq, RequiredKeys)
    /\ \A k \in RequiredKeys : faq[k] # ""

\* C11: build_index fails whenever an entry of the corpus has one of the
\* six required fields missing or empty: it never completes on a corpus
\* that holds such an entry.
C11_MalformedEntryFails ==
    BuildCompleted => \A e \in 1..Len(faqs) : WellFormed(faqs[e])

(***************************************************************************)
(* Rebuilds                                                                *)
(***************************************************************************)
\* build_index is between its two writes or past them
Writing == bpc \in {"write_metadata", "done"}

\* the vectors and the metadata are the two artifacts of one run of
\* build_index: of the run in progress, or of an earlier completed run
FromOneBuild(vectors, metadata) ==
    \/ /\ Writing
       /\ vectors = embeddings_list
       /\ metadata = metadata_list
    \/ \E r \in 1..Len(runs) :
         /\ runs[r].completed
         /\ vectors = runs[r].index.data
         /\ metadata = runs[r].metadata.data

\* C12: in no reachable state does the index directory hold a vector file
\* without a metadata file or with the metadata file of another build,
\* and no constructed engine holds the vectors of one build with the
\* metadata of another.
C12_AtomicPair ==
    /\ disk.index.exists =>
           /\ disk.metadata.exists
           /\ FromOneBuild(disk.index.data, disk.metadata.data)
    /\ self.constructed =>
           FromOneBuild(self.index.value, self.metadata.value)

\* the same texts were answered with the same vectors in both logs
SameEmbedding(log1, log2) ==
    LET both == log1 \o log2
    IN  \A a, b \in 1..Len(both) :
            both[a].text = both[b].text =>
                both[a].embedding = both[b].embedding

\* C13: when build_index has completed twice on the same corpus and the
\* embedding provider answered as one deterministic function, the vector
\* file and the metadata file of the second run are, element for element,
\* those of the first.
C13_SameArtifacts ==
    \A r \in 1..Len(runs) :
        ( /\ BuildCompleted
          /\ runs[r].completed
          /\ runs[r].faqs = faqs
          /\ SameEmbedding(runs[r].provider_log, provider_log) ) =>
            /\ disk.index.data = runs[r].index.data
            /\ disk.metadata.data = runs[r].metadata.data

\* two completed runs on two entries under one deterministic embedding
\* that sends the texts to more than one vector
C13_Witness ==
    /\ BuildCompleted
    /\ Len(runs) = 1
    /\ runs[1].completed
    /\ SameEmbedding(runs[1].provider_log, provider_log)
    /\ Len(faqs) = 2
    /\ disk.index.data[1] # disk.index.data[2]

(***************************************************************************)
(* Failures of the embedding provider                                      *)
(***************************************************************************)
\* the requests of a log that ended in an exception
FailedRequests(log) == {i \in 1..Len(log) : log[i].raised # ""}

\* C14: a failure of the embedding call is propagated without retry.
\* build_index has sent exactly one request per record it has appended,
\* plus the one that failed; after a failure it has stopped, that request
\* was its last, and neither file has been written.  A call of search has
\* sent exactly one request, and when that request failed the call raised
\* and returned no result.
C14_NoRetry ==
    /\ bpc # "start" =>
           /\ Len(provider_log) =
                  Len(embeddings_list) + Cardinality(FailedRequests(provider_log))
           /\ FailedRequests(provider_log) \subseteq {Len(provider_log)}
    /\ BuildCompleted =>
           /\ FailedRequests(provider_log) = {}
           /\ Len(provider_log) = Len(disk.metadata.data)
    /\ FailedRequests(provider_log) # {} =>
           /\ bpc = "raised"
           /\ build_error = "OpenAIError"
           /\ ~disk.index.exists
           /\ ~disk.metadata.exists
    /\ call.op = "search" =>
           /\ Len(call.requests) = 1
           /\ FailedRequests(call.requests) # {} =>
                  /\ call.raised = "OpenAIError"
                  /\ call.results = <<>>

\* a build that stopped at a failed request for its second entry, after
\* three answered requests
C14_Witness ==
    /\ bpc = "raised"
    /\ build_error = "OpenAIError"
    /\ Len(provider_log) = 4
    /\ FailedRequests(provider_log) = {4}

(***************************************************************************)
(* Dimension of the query embedding                                        *)
(***************************************************************************)
\* the last call of search got a query embedding of another dimension
\* than the vectors of the loaded index
Mismatched ==
    /\ call.op = "search"
    /\ FailedRequests(call.requests) = {}
    /\ DOMAIN call.query_embedding # DimensionOf(self.index.value)

AnswerOfIndex(found, xb, xq, k) ==
    LET n == Len(xb)
        filled == IF n < k THEN n ELSE k
    IN  /\ DOMAIN found.I = 1..k
        /\ DOMAIN found.D = 1..k
        /\ \A j \in 1..filled :
               /\ found.I[j] \in 0..(n - 1)
               /\ found.D[j] = L2sqr(xb[found.I[j] + 1], xq)
        /\ \A i, j \in 1..filled : i # j => found.I[i] # found.I[j]
        /\ \A j \in 1..(filled - 1) : found.D[j] <= found.D[j + 1]
        /\ \A l \in 0..(n - 1) :
               (\A j \in 1..filled : found.I[j] # l) =>
                   L2sqr(xb[l + 1], xq) >= found.D[filled]
        /\ \A j \in (filled + 1)..k :
               found.I[j] = -1 /\ found.D[j] = FLT_MAX

\* the caller has returned from search with the result that search, run
\* alone on the vectors and the metadata of the index directory, gives for
\* the same query embedding and the same answer of the index
ResultAsAlone ==
    /\ AnswerOfIndex(tasks.caller.found, disk.index.data,
                     tasks.caller.query_embedding,
                     Overfetch(tasks.caller.top_k))
    /\ LET alone == SearchResults(disk.metadata.data, tasks.caller.found,
                                  tasks.caller.language, tasks.caller.top_k)
       IN  /\ tasks.caller.raised = alone.raised
           /\ tasks.caller.results = alone.results

\* C16: a constructed engine holds the vectors and the metadata it loaded
\* whatever calls of search have run or are running on it, and a call of
\* search that ran while another thread was in search, in any interleaving
\* of the two, returns the result it would return alone on the freshly
\* loaded engine.
C16_ReadOnlyEngine ==
    /\ lpc = "ready" =>
           /\ self.index.value = disk.index.data
           /\ self.metadata.value = disk.metadata.data
    /\ tasks.caller.pc = "returned" => ResultAsAlone

\* the caller returned a record from a call during which the other thread
\* was inside search
C16_Witness ==
    /\ tasks.caller.pc = "returned"
    /\ Len(tasks.caller.results) > 0
    /\ tasks.other.pc = "searching"

(***************************************************************************)
(* The token endpoint                                                      *)
(***************************************************************************)
\* the request of participant p got its response
Responded(p) == request[p].pc = "responded"

\* C17: when a token is requested for a room for which listing the agent
\* dispatches fails with NOT_FOUND, POST /api/token creates that room,
\* creates exactly one agent dispatch for it, adds the room name to the
\* dispatch cache and answers 200.
C17_NotFoundCreatesRoom ==
    \A p \in Participants :
        (Responded(p) /\ request[p].list_error = "NOT_FOUND") =>
            /\ request[p].status = 200
            /\ request[p].created_rooms = <<request[p].roomName>>
            /\ request[p].create_calls = 1
            /\ request[p].roomName \in dispatch_cache

(***************************************************************************)
(* Retrieval failures in the voice agents                                  *)
(***************************************************************************)
\* C18: a retrieval failure never aborts the turn.  An agent whose index
\* failed to load is constructed all the same, and when the engine is
\* missing or get_context_for_llm raises, search_knowledge_base (backend
\* agent) returns a message and on_user_turn_completed (optimized agent)
\* returns, no exception leaving either.
C18_RetrievalFailureContained ==
    /\ agent # NoAgent => agent.raised = ""
    /\ (agent.pc = "returned" /\ agent.kind = "backend") =>
           Len(agent.returned) > 0

\* a tool call of the backend agent whose lookup raised
C18_Witness ==
    /\ agent.pc = "returned"
    /\ agent.kind = "backend"
    /\ agent.lookup = "raised"

(***************************************************************************)
(* The result of search as a whole                                         *)
(***************************************************************************)
\* the real neighbour slots from slot j on whose record passes the
\* language filter of the last call, nearest first
RECURSIVE MatchingSlots(_)
MatchingSlots(j) ==
    IF j > Len(call.found.I) THEN <<>>
    ELSE IF /\ call.found.I[j] >= 0
            /\ call.language \in {"", SlotRecord(j).language}
         THEN <<j>> \o MatchingSlots(j + 1)
         ELSE MatchingSlots(j + 1)

\* result r is the record of neighbour slot j with the score of its distance
ResultOfSlot(r, j) ==
    /\ call.results[r].question = SlotRecord(j).question
    /\ call.results[r].answer = SlotRecord(j).answer
    /\ call.results[r].category = SlotRecord(j).category
    /\ call.results[r].language = SlotRecord(j).language
    /\ call.results[r].similarity_score
           = [num |-> 1, den |-> 1 + call.found.D[j]]

\* C20: the result of search(q, L, k) is exactly the first k, in ascending
\* distance, of the records among the 2k nearest indexed records whose
\* language is L (of all of them without a filter), and exactly those that
\* match when fewer than k do; no candidate is left out for its distance.
C20_FirstKMatching ==
    Returned =>
        LET matching == MatchingSlots(1)
            kept == IF Len(matching) < call.top_k THEN Len(matching)
                    ELSE call.top_k
        IN  /\ Len(call.results) = kept
            /\ \A r \in 1..kept : ResultOfSlot(r, matching[r])
            /\ \A j \in 1..(Len(call.found.D) - 1) :
                   call.found.D[j] <= call.found.D[j + 1]

(***************************************************************************)
(* Distinct neighbours                                                     *)
(***************************************************************************)
\* C23: every list search returns is made of distinct indexed records that
\* the index reported as neighbours: the results can be assigned, one to
\* one, to real neighbour slots (label >= 0) whose record and distance they
\* carry, also when the index holds fewer than 2 * top_k records and the
\* unfilled slots carry label -1.
C23_DistinctNeighbours ==
    Returned =>
        \E slot \in [1..Len(call.results) -> RealSlots] :
            /\ \A r \in 1..Len(call.results) : ResultOfSlot(r, slot[r])
            /\ \A r, s \in 1..Len(call.results) :
                   r # s => slot[r] # slot[s]

(***************************************************************************)
(* A lookup without results in the voice agents                            *)
(***************************************************************************)
\* the agent's lookup ran and search found no FAQ for the query
FoundNothing ==
    /\ agent.pc = "returned"
    /\ agent.lookup = "returned"
    /\ agent.context = NoSimilarFaqs

\* C21: when the search of a lookup finds no FAQ, search_knowledge_base
\* returns the message "No relevant information found in the knowledge
\* base for this query." and on_user_turn_completed adds the message "No
\* relevant information found ..." to the chat, not a message that starts
\* with "RELEVANT INFORMATION FROM KNOWLEDGE BASE".
C21_NothingFoundIsReported ==
    FoundNothing =>
        /\ agent.kind = "backend" =>
               agent.returned = <<"No relevant information found in the ",
                                  "knowledge base for this query.">>
        /\ agent.kind = "optimized" =>
               agent.added = <<"No relevant information found in the ",
                               "knowledge base for this query. ",
                               "Offer to transfer to human agent.">>

(***************************************************************************)
(* The status task of on_user_turn_completed                               *)
(***************************************************************************)
\* on_user_turn_completed has made a lookup and has ended
LookedUp ==
    /\ agent.pc = "returned"
    /\ agent.kind = "optimized"
    /\ agent.lookup # "none"

\* C22: in on_user_turn_completed, when the lookup lasts longer than the
\* delay of 500 ms, the status task has sent the status "speaking" (and
\* spoken its thinking message) before the result of the lookup is added;
\* the status task is cancelled only when the lookup ends before the delay.
C22_StatusSpokenWhenSlow ==
    LookedUp =>
        /\ agent.took = "over_delay" =>
               /\ agent.status_task = "done"
               /\ \E i \in 1..Len(agent.statuses) :
                      agent.statuses[i] = "speaking"
        /\ agent.status_task = "cancelled" => agent.took = "under_delay"

(***************************************************************************)
(* Concurrent token requests, dispatch errors and the dispatch cache       *)
(***************************************************************************)
\* C24: among the token requests being handled at one time for one room,
\* create_dispatch is invoked at most once: two requests that are inside
\* generate_token together for the same room have not both called it.
C24_CreateDispatchOnce ==
    \A p, q \in Participants :
        (/\ p # q
         /\ Handling(p)
         /\ Handling(q)
         /\ request[p].roomName = request[q].roomName) =>
            request[p].create_calls + request[q].create_calls <= 1

\* the step is participant p's request leaving the state it is in
StepOf(p) == request'[p] # request[p]

\* the request of p has just failed on list_dispatch or create_dispatch
\* with an error other than ALREADY_EXISTS
DispatchFails(p) ==
    /\ Handling(p)
    /\ StepOf(p)
    /\ \/ request'[p].list_error \notin {request[p].list_error,
                                         "ALREADY_EXISTS"}
       \/ request'[p].create_error \notin {request[p].create_error,
                                           "ALREADY_EXISTS"}

C26_CachedRoomSkipsDispatch ==
    [][/\ \A p \in Participants :
            (/\ request[p].pc = "ensure"
             /\ StepOf(p)
             /\ request[p].roomName \in dispatch_cache) =>
                /\ request'[p].pc = "to_jwt"
                /\ request'[p].list_calls = 0
                /\ request'[p].create_calls = 0
                /\ livekit' = livekit
                /\ dispatch_cache' = dispatch_cache
       /\ \/ dispatch_cache \subseteq dispatch_cache'
          \/ /\ \A p \in Participants : request[p] = NoRequest
             /\ request' = request
             /\ dispatch_cache' = {}]_vars

\* a request for a cached room has been answered without a call to the
\* LiveKit server
C26_Witness ==
    \E p \in Participants :
        /\ Responded(p)
        /\ request[p].roomName \in dispatch_cache
        /\ request[p].list_calls = 0
        /\ request[p].create_calls = 0
        /\ request[p].status = 200

====
